---- MODULE Spec2Model ----
(***************************************************************************)
(* TileMantle command line tool: the bounded-concurrency, retrying request *)
(* pipeline of bin/tilemantle.js (ES module) and of its CommonJS variant.  *)
(* One action is one event-loop task of the program: the synchronous part  *)
(* of performAction, one line of the expired-tiles stream, or the          *)
(* completion handler of one HTTP attempt together with the async.retry    *)
(* and async.eachLimit bookkeeping it runs synchronously.                  *)
(***************************************************************************)
EXTENDS Integers, Sequences, FiniteSets, TLC

\* ---------------------------------------------------------------- bounds
MaxConcurrency == 2
MaxRetries == 2
MaxTemplates == 2
MaxTiles == 2
MaxLines == 3
MaxZoom == 11
MaxZoomList == 2

\* async.retry: number of attempts when `times` is 0 / not a number
DEFAULT_TIMES == 5

VARIABLES
    esm,             \* TRUE: bin/tilemantle.js (ES module, strict mode); FALSE: CommonJS variant
    argv,            \* parsed options
    urltemplates,    \* number of URL templates (argv._)
    tiles,           \* geometry mode: number of tiles tilecover.tiles yields per zoom level
    zoom,            \* argv.zoom, a string (sequence of characters)
    zooms,           \* the zoom sequence performAction derives from argv.zoom
    tilelist,        \* buildTileList(geojson, zooms): the zoom level of each tile, in order
    log,             \* expiredlist mode: the file as its pieces content.split('\n')
    lines,           \* the text of each piece of the log
    templates,       \* argv._: the text of each URL template
    built,           \* the text of each URL built so far (built[u] is URL u)
    stdin,           \* what fs.readFileSync(process.stdin.fd) gives: error code, data
    rawgeojson,      \* the text read from standard input
    geojson,         \* "undefined", or the input determineGeometry took it from
    pc,              \* position of the run
    pos,             \* number of pieces of the log the second pass has handled
    lineNumber,
    bar,             \* ProgressBar: total and curr (number of ticks)
    totalSet,        \* bar.total has been assigned by performAction
    urls,            \* the urls array of performAction (indices into reqs)
    reqs,            \* one record per URL built so far
    ex,              \* state of the running async.eachLimit
    count_succeeded,
    count_failed,
    printed,         \* the URL lines written by --list, in order
    summary,         \* the final summary line was printed
    exitCode

vars == <<esm, argv, urltemplates, tiles, zoom, zooms, tilelist, log, lines,
          templates, built, stdin, rawgeojson, geojson, pc, pos,
          lineNumber, bar, totalSet,
          urls, reqs, ex, count_succeeded, count_failed, printed, summary, exitCode>>

Min(a, b) == IF a < b THEN a ELSE b

Outcomes == {"ok", "non200", "error"}

Pieces == {"tile", "blank"}

Logs == UNION {[1..n -> Pieces] : n \in 1..MaxLines}

idle == [coll |-> <<>>, idx |-> 0, running |-> 0, done |-> TRUE]

\* counted: an earlier attempt of the URL already ticked the bar and
\* incremented count_failed
newReq == [st |-> "queued", attempts |-> 0, counted |-> FALSE]

\* ------------------------------------------------------- pure helpers

\* async.retry(argv.retries, task, cb): `times` attempts in all, 5 when times is 0
RetryTimes(r) == IF r = 0 THEN DEFAULT_TIMES ELSE r

\* variant of Ticks: the tick precedes the request's outcome
TicksEveryAttempt(outcome) == 1

\* bar.tick() is reached only when the request returned a response
Ticks(outcome) == IF outcome = "error" THEN 0 ELSE 1

\* variant of retryCallbackErr: the error is passed on whatever argv.allowfailures
retryCallbackErrKept(err) == err

\* if (err && argv.allowfailures) err = null;
retryCallbackErr(err) == err /\ ~argv.allowfailures

\* first pass: number of bytes equal to 10, times the number of templates
lineCountOf(l) == (Len(l) - 1) * urltemplates

\* the file has at least one byte (a 'data' event is emitted)
NonEmptyFile(l) == Len(l) > 1 \/ lines[1] # <<>>

\* buildURLs: one URL per template appended to urls (and created in reqs)
buildURLs(rs, n) == rs \o [i \in 1..(n * urltemplates) |-> newReq]

newIds(rs, n) == [i \in 1..(n * urltemplates) |-> Len(rs) + i]

InFlightSet(rs) == {u \in DOMAIN rs : rs[u].st = "inflight"}

\* the request of u belongs to the eachLimit whose callback is still pending
Live(u) == \E i \in 1..ex.idx : ex.coll[i] = u

\* eachLimit replenish(): start items while running < limit and not done
replenish(e) ==
    IF e.done THEN e
    ELSE LET k == Min(argv.concurrency - e.running, Len(e.coll) - e.idx)
         IN [coll |-> e.coll, idx |-> e.idx + k, running |-> e.running + k,
             done |-> (e.running + k < argv.concurrency)]

\* replenish() found the collection exhausted with nothing running: callback(null)
replenishCalls(e) ==
    /\ ~e.done
    /\ replenish(e).done
    /\ replenish(e).running = 0

\* variant of started: the items are taken from the end of the collection
startedFromEnd(rs, e0, e1) ==
    [u \in DOMAIN rs |->
        IF \E i \in (e0.idx + 1)..e1.idx : e1.coll[Len(e1.coll) + 1 - i] = u
        THEN [rs[u] EXCEPT !.st = "inflight", !.attempts = 1]
        ELSE rs[u]]

\* the iteratee is invoked for the items replenish() took: first attempt starts
started(rs, e0, e1) ==
    [u \in DOMAIN rs |->
        IF \E i \in (e0.idx + 1)..e1.idx : e1.coll[i] = u
        THEN [rs[u] EXCEPT !.st = "inflight", !.attempts = 1]
        ELSE rs[u]]

\* process.exit(): requests still in flight never complete
killed(rs) ==
    [u \in DOMAIN rs |->
        IF rs[u].st = "inflight" THEN [rs[u] EXCEPT !.st = "killed"] ELSE rs[u]]

\* ------------------------------------------------------- zoom levels

\* the decimal digits; Digits[v + 1] is the character of value v
Digits == <<"0", "1", "2", "3", "4", "5", "6", "7", "8", "9">>

digitValue(c) == CHOOSE v \in 0..9 : Digits[v + 1] = c

\* Number(s) for a string of decimal digits
RECURSIVE Number(_)
Number(s) ==
    IF s = <<>> THEN 0
    ELSE 10 * Number(SubSeq(s, 1, Len(s) - 1)) + digitValue(s[Len(s)])

\* String(n): the decimal representation Array.prototype.sort compares
RECURSIVE String(_)
String(n) ==
    IF n < 10 THEN <<Digits[n + 1]>>
    ELSE String(n \div 10) \o <<Digits[(n % 10) + 1]>>

\* s.indexOf(c): position of the first c counted from 0, or -1
indexOf(s, c) ==
    IF \E i \in DOMAIN s : s[i] = c
    THEN (CHOOSE i \in DOMAIN s : s[i] = c /\ \A j \in 1..(i - 1) : s[j] # c) - 1
    ELSE -1

\* s.split(sep)
RECURSIVE split(_, _)
split(s, sep) ==
    LET i == indexOf(s, sep)
    IN IF i = -1 THEN <<s>>
       ELSE <<SubSeq(s, 1, i)>> \o split(SubSeq(s, i + 2, Len(s)), sep)

\* a < b in the order of the default sort: strings compared by code units
RECURSIVE lexLess(_, _)
lexLess(a, b) ==
    IF a = <<>> THEN b # <<>>
    ELSE IF b = <<>> THEN FALSE
    ELSE IF a[1] = b[1] THEN lexLess(Tail(a), Tail(b))
    ELSE digitValue(a[1]) < digitValue(b[1])

RECURSIVE insert(_, _)
insert(x, s) ==
    IF s = <<>> THEN <<x>>
    ELSE IF lexLess(String(x), String(s[1])) THEN <<x>> \o s
    ELSE <<s[1]>> \o insert(x, Tail(s))

\* zooms.sort(): no compare function, the elements are ordered as strings
RECURSIVE sort(_)
sort(s) == IF s = <<>> THEN <<>> ELSE insert(s[1], sort(Tail(s)))

\* .map(Number)
mapNumber(ss) == [i \in DOMAIN ss |-> Number(ss[i])]

\* for (let z = minzoom; z <= maxzoom; z++) zooms.push(z)
RECURSIVE pushUp(_, _)
pushUp(z, maxzoom) == IF z <= maxzoom THEN <<z>> \o pushUp(z + 1, maxzoom) ELSE <<>>

\* for (let z = minzoom; z >= maxzoom; z--) zooms.push(z)
RECURSIVE pushDown(_, _)
pushDown(z, maxzoom) == IF z >= maxzoom THEN <<z>> \o pushDown(z - 1, maxzoom) ELSE <<>>

\* variant of zoomRange: the range always counts up from its lower end
zoomRangeUp(parts) ==
    IF parts[2] > parts[1] THEN pushUp(parts[1], parts[2])
    ELSE pushUp(parts[2], parts[1])

\* the zoom levels of a range spec, parts = [minzoom, maxzoom]
zoomRange(parts) ==
    IF parts[2] > parts[1] THEN pushUp(parts[1], parts[2])
    ELSE pushDown(parts[1], parts[2])

\* the zoom sequence of performAction
parseZoom(z) ==
    IF indexOf(z, "-") > -1
    THEN zoomRange(mapNumber(split(z, "-")))
    ELSE sort(mapNumber(split(z, ",")))

\* buildTileList: the tiles of each zoom level, concatenated in the order of zs
RECURSIVE buildTileList(_)
buildTileList(zs) ==
    IF zs = <<>> THEN <<>>
    ELSE [i \in 1..tiles |-> zs[1]] \o buildTileList(Tail(zs))

\* ------------------------------------------------------- URL texts

\* A template is a sequence of characters in which each placeholder {x}, {y},
\* {z} is one element; a line of the log is a sequence of characters.

\* the elements i.. of s, with val in place of every occurrence of ph
RECURSIVE replaceFrom(_, _, _, _)
replaceFrom(s, i, ph, val) ==
    IF i > Len(s) THEN <<>>
    ELSE (IF s[i] = ph THEN val ELSE <<s[i]>>) \o replaceFrom(s, i + 1, ph, val)

\* str.replace(/\{p\}/g, val): every occurrence of the placeholder ph
\* (s is the value of t, evaluated once)
replace(t, ph, val) == CHOOSE r \in {replaceFrom(s, 1, ph, val) : s \in {t}} : TRUE

\* zxy[k], k counted from 0; a missing element is undefined, which replace()
\* writes as the text undefined
field(zxy, k) == IF k + 1 <= Len(zxy) THEN zxy[k + 1] ELSE <<"undefined">>

\* variant of urlsOf: {x} and {z} receive each other's value
urlsOfExchanged(xyz) ==
    [k \in 1..urltemplates |->
        replace(replace(replace(templates[k], "{x}", xyz[3]), "{y}", xyz[2]),
                "{z}", xyz[1])]

\* buildURLs(xyz, urls): the URLs pushed for one coordinate, one per template
urlsOf(xyz) ==
    [k \in 1..urltemplates |->
        replace(replace(replace(templates[k], "{x}", xyz[1]), "{y}", xyz[2]),
                "{z}", xyz[3])]

\* the URLs of the tiles tl[t..]; a tile of tilecover is [x, y, z], with x
\* and y standing for the tile's place in the list
RECURSIVE urlsOfTiles(_, _)
urlsOfTiles(tl, t) ==
    IF t > Len(tl) THEN <<>>
    ELSE urlsOf(<<String(t), String(t), String(tl[t])>>) \o urlsOfTiles(tl, t + 1)

\* line.trim().length === 0
isBlank(line) == \A i \in DOMAIN line : line[i] = " "

\* templates of the pipeline runs
templatesOf(n) ==
    [k \in 1..n |-> IF k % 2 = 1 THEN <<"{z}", "/", "{x}", "/", "{y}">>
                                 ELSE <<"{x}", "{x}", "-", "{y}", "{z}">>]

\* texts of the pieces of the pipeline runs: the i-th piece is i/i+1/i+2 if
\* it is a tile, empty if blank, and a line of two fields otherwise
linesOf(l) ==
    [i \in DOMAIN l |->
        IF l[i] = "tile"
            THEN String(i) \o <<"/">> \o String(i + 1) \o <<"/">> \o String(i + 2)
        ELSE IF l[i] = "blank" THEN <<>>
        ELSE String(i) \o <<"/">> \o String(i + 1)]

\* zoom specs of the pipeline runs: one level, a descending range, a list
PipelineZoomArgs == {<<"1">>, <<"2", "-", "1">>, <<"1", ",", "2">>}

\* ------------------------------------------------------------- Init

\* the state of the program when async.series starts
InitRun ==
    /\ zooms = <<>>
    /\ tilelist = <<>>
    /\ built = <<>>
    /\ pos = 0
    /\ lineNumber = 0
    /\ bar = [total |-> 0, curr |-> 0]
    /\ totalSet = FALSE
    /\ urls = <<>>
    /\ reqs = <<>>
    /\ ex = idle
    /\ count_succeeded = 0
    /\ count_failed = 0
    /\ printed = <<>>
    /\ summary = FALSE
    /\ exitCode = -1

\* the state before performAction runs: nothing was piped (EAGAIN), and in
\* geometry mode determineGeometry took the geometry from --file
InitState ==
    /\ pc = "performAction"
    /\ stdin = [code |-> "EAGAIN", data |-> <<>>]
    /\ rawgeojson = <<>>
    /\ geojson = IF argv.expiredlist THEN "undefined" ELSE "file"
    /\ InitRun

\* the options and inputs of a run: geometry mode with a zoom spec of one or
\* two levels and at most MaxTiles tiles, or expiredlist mode with a log
Init ==
    /\ esm \in BOOLEAN
    /\ argv \in [expiredlist : BOOLEAN, list : BOOLEAN, allowfailures : BOOLEAN,
                 concurrency : 1..MaxConcurrency, retries : 0..MaxRetries]
    /\ urltemplates \in 1..MaxTemplates
    /\ tiles \in 0..MaxTiles
    /\ log \in Logs
    /\ zoom \in PipelineZoomArgs \cup {<<>>}
    /\ argv.expiredlist => (tiles = 0 /\ zoom = <<>>)
    /\ ~argv.expiredlist =>
          /\ log = <<"blank">>
          /\ zoom # <<>>
          /\ tiles * Len(parseZoom(zoom)) <= MaxTiles
    /\ lines = linesOf(log)
    /\ templates = templatesOf(urltemplates)
    /\ InitState

\* ---------------------------------------------- final callback of async.series

\* (err) => { if (count_succeeded || count_failed) summary; exit(err ? 1 : 0) }
Finish(err, rs, cs, cf) ==
    /\ summary' = (cs > 0 \/ cf > 0)
    /\ exitCode' = IF err THEN 1 ELSE 0
    /\ reqs' = killed(rs)
    /\ pc' = "exited"

\* asyncRequest(urls, argv.concurrency, cb) called with the buffer `ids`;
\* `next` is the position of the run while the requests are outstanding,
\* `fin` tells whether cb ends the run (geometry mode, end of stream)
asyncRequest(rs, ids, next, fin) ==
    LET e0 == [coll |-> ids, idx |-> 0, running |-> 0, done |-> FALSE]
        e1 == replenish(e0)
    IN IF replenishCalls(e0)
       THEN /\ ex' = idle
            /\ urls' = <<>>
            /\ IF fin THEN Finish(FALSE, rs, count_succeeded, count_failed)
                      ELSE /\ reqs' = rs
                           /\ pc' = "streaming"
                           /\ UNCHANGED <<summary, exitCode>>
       ELSE /\ ex' = e1
            /\ urls' = ids
            /\ reqs' = started(rs, e0, e1)
            /\ pc' = next
            /\ UNCHANGED <<summary, exitCode>>

\* --------------------------------------- readFromPipe, determineGeometry

\* an exception leaves the task of async.series uncaught: the process ends
\* with exit code 1 and the final callback is not run
uncaughtException ==
    /\ pc' = "exited"
    /\ exitCode' = 1

readFromPipe ==
    /\ pc = "readFromPipe"
    /\ IF stdin.code # ""
       THEN \* readFileSync throws, rawgeojson keeps its value
            /\ UNCHANGED rawgeojson
            /\ IF stdin.code # "EAGAIN"
               THEN uncaughtException
               ELSE pc' = "determineGeometry" /\ UNCHANGED exitCode
       ELSE /\ rawgeojson' = stdin.data
            /\ IF isBlank(stdin.data)
               THEN \* Error('invalid input') has no code: it is thrown again
                    uncaughtException
               ELSE pc' = "determineGeometry" /\ UNCHANGED exitCode
    /\ UNCHANGED <<esm, argv, urltemplates, tiles, zoom, zooms, tilelist, log,
                   lines, templates, built, stdin, geojson,
                   pos, lineNumber, bar, totalSet,
                   urls, reqs, ex, count_succeeded, count_failed, printed, summary>>

\* the texts read are taken to be valid GeoJSON with a geometry type
determineGeometry ==
    /\ pc = "determineGeometry"
    /\ IF rawgeojson # <<>>
       THEN geojson' = "stdin" /\ pc' = "performAction" /\ UNCHANGED exitCode
       ELSE IF argv.file
       THEN geojson' = "file" /\ pc' = "performAction" /\ UNCHANGED exitCode
       ELSE IF argv.point
       THEN geojson' = "point" /\ pc' = "performAction" /\ UNCHANGED exitCode
       ELSE IF argv.extent
       THEN geojson' = "extent" /\ pc' = "performAction" /\ UNCHANGED exitCode
       ELSE IF argv.expiredlist
       THEN pc' = "performAction" /\ UNCHANGED <<geojson, exitCode>>
       ELSE \* displayHelp(); process.exit(1)
            pc' = "exited" /\ exitCode' = 1 /\ UNCHANGED geojson
    /\ UNCHANGED <<esm, argv, urltemplates, tiles, zoom, zooms, tilelist, log,
                   lines, templates, built, stdin, rawgeojson,
                   pos, lineNumber, bar, totalSet,
                   urls, reqs, ex, count_succeeded, count_failed, printed, summary>>

\* ------------------------------------------------------- performAction

performActionGeometry ==
    /\ pc = "performAction"
    /\ ~argv.expiredlist
    /\ zooms' = parseZoom(zoom)
    /\ tilelist' = buildTileList(zooms')
    /\ built' = built \o urlsOfTiles(tilelist', 1)
    /\ LET rs == buildURLs(reqs, Len(tilelist'))
           ids == newIds(reqs, Len(tilelist'))
       IN IF argv.list
          THEN /\ printed' = ids
               /\ urls' = ids
               /\ Finish(FALSE, rs, count_succeeded, count_failed)
               /\ UNCHANGED <<bar, totalSet, ex>>
          ELSE /\ bar' = [bar EXCEPT !.total = Len(ids)]
               /\ totalSet' = TRUE
               /\ asyncRequest(rs, ids, "requesting", TRUE)
               /\ UNCHANGED printed
    /\ UNCHANGED <<esm, argv, urltemplates, tiles, zoom, log, lines, templates,
                   stdin, rawgeojson, geojson,
                   pos, lineNumber, count_succeeded, count_failed>>

\* variant of performActionExpiredlist: the second pass is started at once,
\* without waiting for the end of the first one
performActionExpiredlistNoCount ==
    /\ pc = "performAction"
    /\ argv.expiredlist
    /\ pc' = "streaming"
    /\ UNCHANGED <<esm, argv, urltemplates, tiles, zoom, zooms, tilelist, log,
                   lines, templates, built, stdin, rawgeojson, geojson,
                   pos, lineNumber, bar, totalSet,
                   urls, reqs, ex, count_succeeded, count_failed, printed,
                   summary, exitCode>>

performActionExpiredlist ==
    /\ pc = "performAction"
    /\ argv.expiredlist
    /\ pc' = "counting"
    /\ UNCHANGED <<esm, argv, urltemplates, tiles, zoom, zooms, tilelist, log,
                   lines, templates, built, stdin, rawgeojson, geojson,
                   pos, lineNumber, bar, totalSet,
                   urls, reqs, ex, count_succeeded, count_failed, printed,
                   summary, exitCode>>

\* 'data' handler of the first pass: `for (i = 0; ...)` assigns the undeclared
\* i, a ReferenceError in an ES module; the uncaught exception ends the process
countPassThrows ==
    /\ pc = "counting"
    /\ esm
    /\ NonEmptyFile(log)
    /\ pc' = "exited"
    /\ exitCode' = 1
    /\ UNCHANGED <<esm, argv, urltemplates, tiles, zoom, zooms, tilelist, log,
                   lines, templates, built, stdin, rawgeojson, geojson,
                   pos, lineNumber, bar, totalSet,
                   urls, reqs, ex, count_succeeded, count_failed, printed, summary>>

\* 'end' handler of the first pass: the total is set, the second pass starts
countPassEnd ==
    /\ pc = "counting"
    /\ ~(esm /\ NonEmptyFile(log))
    /\ bar' = [bar EXCEPT !.total = lineCountOf(log)]
    /\ totalSet' = TRUE
    /\ lineNumber' = 0
    /\ pc' = "streaming"
    /\ UNCHANGED <<esm, argv, urltemplates, tiles, zoom, zooms, tilelist, log,
                   lines, templates, built, stdin, rawgeojson, geojson,
                   pos, urls, reqs, ex,
                   count_succeeded, count_failed, printed, summary, exitCode>>

\* es.mapSync handler for one piece of the log
streamLine ==
    /\ pc = "streaming"
    /\ pos < Len(log)
    /\ pos' = pos + 1
    /\ lineNumber' = lineNumber + 1
    /\ IF log[pos + 1] = "blank"
       THEN UNCHANGED <<urls, reqs, ex, printed, pc, summary, exitCode, built>>
       ELSE LET rs == buildURLs(reqs, 1)
                ids == urls \o newIds(reqs, 1)
                zxy == split(lines[pos + 1], "/")
            IN /\ built' = built \o
                         urlsOf(<<field(zxy, 1), field(zxy, 2), field(zxy, 0)>>)
               /\ IF argv.list
                  THEN /\ printed' = printed \o ids
                       /\ urls' = <<>>
                       /\ reqs' = rs
                       /\ UNCHANGED <<ex, pc, summary, exitCode>>
                  ELSE IF Len(ids) > 0 /\ (lineNumber + 1) % argv.concurrency = 0
                       THEN /\ asyncRequest(rs, ids, "flushing", FALSE)
                            /\ UNCHANGED printed
                       ELSE /\ urls' = ids
                            /\ reqs' = rs
                            /\ UNCHANGED <<ex, printed, pc, summary, exitCode>>
    /\ UNCHANGED <<esm, argv, urltemplates, tiles, zoom, zooms, tilelist, log,
                   lines, templates, stdin, rawgeojson, geojson, bar, totalSet,
                   count_succeeded, count_failed>>

\* 'end' handler of the second pass
streamEnd ==
    /\ pc = "streaming"
    /\ pos = Len(log)
    /\ IF Len(urls) > 0
       THEN asyncRequest(reqs, urls, "finalflush", TRUE)
       ELSE /\ Finish(FALSE, reqs, count_succeeded, count_failed)
            /\ UNCHANGED <<urls, ex>>
    /\ UNCHANGED <<esm, argv, urltemplates, tiles, zoom, zooms, tilelist, log,
                   lines, templates, built, stdin, rawgeojson, geojson,
                   pos, lineNumber, bar, totalSet,
                   count_succeeded, count_failed, printed>>

\* ------------------------------------------------------- asyncRequest

\* the callback given to asyncRequest; by position of the run: the callback
\* of performAction (geometry mode), the flush callback of the mapSync
\* handler, or the flush callback of the 'end' handler (both ignore err)
eachCallback(err, rs, cs, cf) ==
    /\ ex' = idle
    /\ IF pc = "requesting"
       THEN /\ Finish(err, rs, cs, cf)
            /\ UNCHANGED urls
       ELSE IF pc = "flushing"
       THEN /\ urls' = <<>>
            /\ reqs' = rs
            /\ pc' = "streaming"
            /\ UNCHANGED <<summary, exitCode>>
       ELSE /\ urls' = <<>>
            /\ Finish(FALSE, rs, cs, cf)

\* eachLimit iterateeCallback(err) for the item u
iterateeCallback(u, err, rs, cs, cf) ==
    IF ~Live(u)
    THEN \* the callback of this eachLimit was already called (once) with an
         \* error and the eachLimit is done: nothing is started, nothing called
         /\ reqs' = rs
         /\ UNCHANGED <<urls, ex, pc, summary, exitCode>>
    ELSE LET e0 == [ex EXCEPT !.running = @ - 1]
             e1 == replenish(e0)
         IN IF err
            THEN eachCallback(TRUE, rs, cs, cf)
            ELSE IF (e0.done /\ e0.running <= 0) \/ replenishCalls(e0)
            THEN eachCallback(FALSE, rs, cs, cf)
            ELSE /\ ex' = e1
                 /\ reqs' = started(rs, e0, e1)
                 /\ UNCHANGED <<urls, pc, summary, exitCode>>

\* one attempt of async.retry for u ends with `outcome`: the body of the
\* task, the retry decision, the retry callback and the eachLimit bookkeeping.
\* The task is taken as written: it receives the retry callback and reports
\* its outcome through it (as the CommonJS variant's request callback does).
\* A retry starts the next attempt in the same step (interval 0).
attemptDone(u, outcome) ==
    /\ pc \in {"requesting", "flushing", "finalflush", "streaming"}
    /\ u \in InFlightSet(reqs)
    /\ LET r == reqs[u]
           failure == outcome # "ok"
           cs == count_succeeded + (IF outcome = "ok" THEN 1 ELSE 0)
           cf == count_failed + (IF outcome = "non200" THEN 1 ELSE 0)
           counted == r.counted \/ cf > count_failed
       IN /\ bar' = [bar EXCEPT !.curr = @ + Ticks(outcome)]
          /\ count_succeeded' = cs
          /\ count_failed' = cf
          /\ IF failure /\ r.attempts < RetryTimes(argv.retries)
             THEN /\ reqs' = [reqs EXCEPT ![u] = [r EXCEPT !.attempts = @ + 1, !.counted = counted]]
                  /\ UNCHANGED <<urls, ex, pc, summary, exitCode>>
             ELSE iterateeCallback(u, retryCallbackErr(failure),
                      [reqs EXCEPT ![u] = [newReq EXCEPT
                          !.st = IF failure THEN "exhausted" ELSE "succeeded"]],
                      cs, cf)
    /\ UNCHANGED <<esm, argv, urltemplates, tiles, zoom, zooms, tilelist, log,
                   lines, templates, built, stdin, rawgeojson, geojson,
                   pos, lineNumber, totalSet, printed>>

\* got() resolved with status 200
response200 == \E u \in DOMAIN reqs : attemptDone(u, "ok")

\* got() resolved with a status other than 200
responseNon200 == \E u \in DOMAIN reqs : attemptDone(u, "non200")

\* got() rejected (transport error)
requestError == \E u \in DOMAIN reqs : attemptDone(u, "error")

Next ==
    \/ performActionGeometry
    \/ performActionExpiredlist
    \/ countPassThrows
    \/ countPassEnd
    \/ streamLine
    \/ streamEnd
    \/ response200
    \/ responseNon200
    \/ requestError

Spec == Init /\ [][Next]_vars

\* ------------------------------------- expired lists with malformed lines

\* a line that is not blank and is not z/x/y with three integer fields (too
\* few fields, a non-numeric field); the handler tests for blank lines only,
\* line.split('/') and buildURLs take any other line
MalformedLogs ==
    {l \in UNION {[1..n -> Pieces \cup {"bad"}] : n \in 1..MaxLines} :
        \E i \in DOMAIN l : l[i] = "bad"}

InitMalformed ==
    /\ esm \in BOOLEAN
    /\ argv \in [expiredlist : {TRUE}, list : BOOLEAN, allowfailures : BOOLEAN,
                 concurrency : 1..MaxConcurrency, retries : 1..MaxRetries]
    /\ urltemplates \in 1..MaxTemplates
    /\ tiles = 0
    /\ zoom = <<>>
    /\ log \in MalformedLogs
    /\ lines = linesOf(log)
    /\ templates = templatesOf(urltemplates)
    /\ InitState

NextExpiredlist ==
    \/ performActionExpiredlist
    \/ countPassThrows
    \/ countPassEnd
    \/ streamLine
    \/ streamEnd
    \/ response200
    \/ responseNon200
    \/ requestError

SpecMalformed == InitMalformed /\ [][NextExpiredlist]_vars

\* ------------------------------------- expired lists as texts of z/x/y lines

\* fields of one and of two digits
FieldTexts == {<<"1">>, <<"2", "0">>}

\* an empty line, a line of one space, and the lines z/x/y
LineTexts ==
    {<<>>, <<" ">>}
        \cup {z \o <<"/">> \o x \o <<"/">> \o y : z, x, y \in FieldTexts}

TemplateTexts ==
    {<<"{z}", "/", "{x}", "/", "{y}">>, <<"{x}", "{x}", "-", "{y}", "{z}">>,
     <<"{y}", "{z}", "{x}">>}

\* every request succeeds at once; default retries
InitLines ==
    /\ esm \in BOOLEAN
    /\ argv \in [expiredlist : {TRUE}, list : BOOLEAN, allowfailures : {TRUE},
                 concurrency : 1..MaxConcurrency, retries : {1}]
    /\ urltemplates \in 1..MaxTemplates
    /\ templates \in [1..urltemplates -> TemplateTexts]
    /\ tiles = 0
    /\ zoom = <<>>
    /\ lines \in UNION {[1..n -> LineTexts] : n \in 1..MaxLines}
    /\ log = [i \in DOMAIN lines |-> IF isBlank(lines[i]) THEN "blank" ELSE "tile"]
    /\ InitState

NextLines ==
    \/ performActionExpiredlist
    \/ countPassThrows
    \/ countPassEnd
    \/ streamLine
    \/ streamEnd
    \/ response200

SpecLines == InitLines /\ [][NextLines]_vars

\* ------------------------------------------- the run from its first stage

\* reading standard input fails (nothing to read without blocking, or another
\* error), or gives an empty text, a space, or a GeoJSON text
StdinCases ==
    {[code |-> c, data |-> <<>>] : c \in {"EAGAIN", "EOF"}}
        \cup {[code |-> "", data |-> d] : d \in {<<>>, <<" ">>, <<"geojson">>}}

\* --list, one template, one tile per zoom level
InitStdin ==
    /\ esm \in BOOLEAN
    /\ argv \in [expiredlist : BOOLEAN, file : BOOLEAN, point : BOOLEAN,
                 extent : BOOLEAN, list : {TRUE}, allowfailures : {TRUE},
                 concurrency : {1}, retries : {1}]
    /\ urltemplates = 1
    /\ tiles = 1
    /\ zoom \in PipelineZoomArgs
    /\ log \in Logs
    /\ ~argv.expiredlist => log = <<"blank">>
    /\ lines = linesOf(log)
    /\ templates = templatesOf(urltemplates)
    /\ stdin \in StdinCases
    /\ rawgeojson = <<>>
    /\ geojson = "undefined"
    /\ pc = "readFromPipe"
    /\ InitRun

NextStdin ==
    \/ readFromPipe
    \/ determineGeometry
    \/ performActionGeometry
    \/ performActionExpiredlist
    \/ countPassThrows
    \/ countPassEnd
    \/ streamLine
    \/ streamEnd

SpecStdin == InitStdin /\ [][NextStdin]_vars

\* ----------------------------------------- geometry mode over zoom specs

\* the decimal numerals of the zoom levels 0..MaxZoom
Numerals == {String(n) : n \in 0..MaxZoom}

RECURSIVE join(_, _)
join(ss, sep) ==
    IF Len(ss) = 1 THEN ss[1] ELSE ss[1] \o <<sep>> \o join(Tail(ss), sep)

\* values of argv.zoom the .check() of the options accepts:
\* \d+(,\d+)* with at most MaxZoomList levels, and \d+-\d+
ZoomArgs ==
    {join(p, ",") : p \in UNION {[1..n -> Numerals] : n \in 1..MaxZoomList}}
        \cup {a \o <<"-">> \o b : a, b \in Numerals}

\* one tile per zoom level, one template, default retries
InitZoom ==
    /\ esm \in BOOLEAN
    /\ argv \in [expiredlist : {FALSE}, list : BOOLEAN, allowfailures : {TRUE},
                 concurrency : 1..MaxConcurrency, retries : {1}]
    /\ urltemplates = 1
    /\ tiles = 1
    /\ zoom \in ZoomArgs
    /\ log = <<"blank">>
    /\ lines = linesOf(log)
    /\ templates = templatesOf(urltemplates)
    /\ InitState

NextZoom ==
    \/ performActionGeometry
    \/ response200

SpecZoom == InitZoom /\ [][NextZoom]_vars

\* ------------------------------------------------------------ claims

NumInFlight == Cardinality(InFlightSet(reqs))

Exhausted(rs) == {u \in DOMAIN rs : rs[u].st = "exhausted"}

\* a URL exhausted its attempts and the failure is not tolerated
AbortTriggered == ~argv.allowfailures /\ Exhausted(reqs) # {}

\* the attempt that ends in this step is the last one of u
Terminates(u, st) ==
    /\ u \in DOMAIN reqs
    /\ reqs[u].st = "inflight"
    /\ reqs'[u].st = st

NumTilesOfLog == Cardinality({i \in DOMAIN log : log[i] = "tile"})

\* number of URLs the tile source yields
ExpectedURLs ==
    (IF argv.expiredlist THEN NumTilesOfLog ELSE tiles * Len(parseZoom(zoom)))
        * urltemplates

\* C1: at every moment, in both modes and for either value of allowfailures,
\* the number of HTTP requests in flight is at most argv.concurrency.
C1_InFlightAtMostConcurrency == NumInFlight <= argv.concurrency

\* C2: for every URL the number of attempts is at most retries + 1, it is
\* exactly retries + 1 when every attempt fails, and no attempt follows a
\* successful one.
C2_AttemptsRetriesPlusOne ==
    [][\A u \in DOMAIN reqs :
        /\ reqs'[u].attempts <= argv.retries + 1
        /\ Terminates(u, "exhausted") => reqs[u].attempts = argv.retries + 1
        /\ reqs[u].st = "succeeded" => reqs'[u].st = "succeeded"]_vars

\* C3: a URL whose first k attempts fail (1 <= k <= retries) and whose next
\* attempt returns 200 has, once completed, increased count_succeeded by 1,
\* count_failed by 0 and the number of ticks by 1.
C3_RetriedSuccessCountedOnce ==
    [][\A u \in DOMAIN reqs :
        (/\ Terminates(u, "succeeded")
         /\ reqs[u].attempts - 1 >= 1
         /\ reqs[u].attempts - 1 <= argv.retries)
        => /\ ~reqs[u].counted
           /\ count_succeeded' - count_succeeded = 1
           /\ count_failed' - count_failed = 0
           /\ bar'.curr - bar.curr = 1]_vars

\* C4: a URL whose retry budget is exhausted, by non-200 responses or by
\* transport errors, increments count_failed exactly once and ticks exactly
\* once; its non-terminal failed attempts change neither counter.
C4_ExhaustedCountedOnce ==
    [][\A u \in DOMAIN reqs :
        /\ Terminates(u, "exhausted")
            => /\ ~reqs[u].counted
               /\ count_failed' - count_failed = 1
               /\ bar'.curr - bar.curr = 1
               /\ count_succeeded' = count_succeeded
        /\ (reqs[u].st = "inflight" /\ reqs'[u].st = "inflight"
              /\ reqs'[u].attempts > reqs[u].attempts)
            => /\ count_failed' = count_failed
               /\ bar'.curr = bar.curr]_vars

\* C5: once the total has been set, the number of ticks never exceeds it.
C5_CompletedAtMostTotal == totalSet => bar.curr <= bar.total

\* C6: whenever no completion handler is part-way through (every state of
\* this model: a handler is one synchronous task), count_succeeded +
\* count_failed equals the number of ticks.
C6_CountsEqualTicks == count_succeeded + count_failed = bar.curr

\* C6 witness: two requests outstanding, one of them retried after a transport
\* error, after both a success and a counted failure were recorded
C6_Witness ==
    /\ NumInFlight >= 2
    /\ count_succeeded >= 1
    /\ count_failed >= 1
    /\ \E u \in InFlightSet(reqs) : reqs[u].attempts >= 2 /\ ~reqs[u].counted

\* C7: with allowfailures=false, after the first URL exhausts its retry
\* budget no URL that was not yet dispatched is dispatched, in the current
\* batch or in any later batch.
C7_NoDispatchAfterAbort ==
    [][AbortTriggered =>
        \A u \in InFlightSet(reqs') : u \in InFlightSet(reqs)]_vars

\* C8: with allowfailures=false, every request in flight when the abort is
\* triggered completes and updates the counters before the process exits.
C8_InFlightCompleteBeforeExit ==
    (pc = "exited" /\ ~argv.allowfailures)
        => \A u \in DOMAIN reqs : reqs[u].st # "killed"

\* C9: whenever allowfailures=false and some URL exhausts its retry budget,
\* the process exits with code 1, in both modes; code 0 only without a fatal
\* error and without a non-tolerated terminal failure.
C9_AbortExitsWithOne ==
    pc = "exited" =>
        /\ AbortTriggered => exitCode = 1
        /\ exitCode = 0 => ~AbortTriggered

\* C10: with allowfailures=true, a URL that exhausts its retry budget does
\* not stop the run: the run can always go on until it exits, and when it
\* exits every URL of the tile source was dispatched and completed and the
\* exit code is 0.
C10_ToleratedFailureContinues ==
    (argv.allowfailures /\ Exhausted(reqs) # {}) =>
        /\ pc # "exited" => ENABLED Next
        /\ pc = "exited" =>
            /\ exitCode = 0
            /\ Len(reqs) = ExpectedURLs
            /\ \A u \in DOMAIN reqs : reqs[u].st \in {"succeeded", "exhausted"}

\* C10 witness: a tolerant expiredlist run has exited after its first URL
\* exhausted its attempts while later URLs of later batches succeeded
C10_Witness ==
    /\ argv.allowfailures
    /\ argv.expiredlist
    /\ pc = "exited"
    /\ Len(reqs) >= 3
    /\ reqs[1].st = "exhausted"
    /\ reqs[Len(reqs)].st = "succeeded"
    /\ exitCode = 0

\* number of non-blank lines among the first n pieces of the log
NumTilesUpTo(n) == Cardinality({i \in 1..n : log[i] = "tile"})

\* the URL has been handed to got() at least once
Dispatched(rs) == {u \in DOMAIN rs : rs[u].st # "queued"}

\* C11: when no fatal error occurs, every URL built from the tile source is
\* dispatched and reaches a terminal outcome before the run reaches its
\* exit step: no URL is dropped (stated on the final state of a run that
\* ended without error).
C11_NoURLDropped ==
    (pc = "exited" /\ exitCode = 0 /\ ~argv.list) =>
        /\ Len(reqs) = ExpectedURLs
        /\ \A u \in DOMAIN reqs : reqs[u].st \in {"succeeded", "exhausted"}

\* C12: in log-driven mode without --list, after each line the buffer holds
\* at most concurrency x M URLs, the executor is run exactly when the number
\* of non-blank lines read so far reaches a multiple of concurrency, and at
\* end of stream exactly when a remainder is left.
C12_FlushEveryConcurrencyTiles ==
    [][(argv.expiredlist /\ ~argv.list /\ pc = "streaming") =>
        /\ pos' = pos + 1 =>
            /\ Len(urls') <= argv.concurrency * urltemplates
            /\ (pc' = "flushing") <=>
                 (log[pos'] = "tile" /\ NumTilesUpTo(pos') % argv.concurrency = 0)
        /\ (pos' = pos /\ pc' # "streaming") =>
            ((pc' = "finalflush") <=> (NumTilesOfLog % argv.concurrency # 0))]_vars

\* C13: in log-driven mode the progress total is set to N*M, N the number of
\* non-blank lines and M the number of templates.
C13_TotalIsTilesTimesTemplates ==
    (argv.expiredlist /\ totalSet) => bar.total = NumTilesOfLog * urltemplates

\* C16: the final summary line is printed if and only if at least one HTTP
\* request was attempted during the run.
C16_SummaryIffAttempted ==
    pc = "exited" => (summary <=> Dispatched(reqs) # {})

\* C17: the total is set before the first request is dispatched and before
\* the first tick; in geometry mode it is the number of built URLs; in log
\* mode the second pass runs only after the first pass has set the total.
C17_TotalSetBeforeRequests ==
    /\ (Dispatched(reqs) # {} \/ bar.curr > 0) => totalSet
    /\ (~argv.expiredlist /\ Dispatched(reqs) # {}) => bar.total = Len(reqs)
    /\ pc \in {"streaming", "flushing", "finalflush"} => totalSet

\* C17 witness: the second pass has dispatched a batch, no tick yet
C17_Witness ==
    /\ argv.expiredlist
    /\ pc = "flushing"
    /\ NumInFlight >= 1
    /\ bar.curr = 0
    /\ totalSet

\* geometry mode: the tile and the zoom group a URL was built from
\* (buildURLs pushes the URLs of a tile together, in template order)
tileOfURL(u) == ((u - 1) \div urltemplates) + 1

groupOfTile(t) == ((t - 1) \div tiles) + 1

C15_ListPrintsAllURLs ==
    argv.list =>
        /\ Dispatched(reqs) = {}
        /\ count_succeeded = 0 /\ count_failed = 0
        /\ pc = "exited" => printed = [i \in 1..ExpectedURLs |-> i]

\* expiredlist mode: the line of the log a URL was built from
NonBlankUpTo(n) == Cardinality({i \in 1..n : log[i] # "blank"})

lineOfURL(u) ==
    CHOOSE i \in DOMAIN log : log[i] # "blank" /\ NonBlankUpTo(i) = tileOfURL(u)

\* C18: in expiredlist mode, once a line that is not z/x/y with three integer
\* fields has been handled, the run ends with exit code 1, and no URL is ever
\* built (or requested) from such a line.
C18_MalformedLineIsFatal ==
    /\ (pc = "exited" /\ \E i \in 1..pos : log[i] = "bad") => exitCode = 1
    /\ \A u \in DOMAIN reqs : log[lineOfURL(u)] # "bad"

\* the levels listed in a comma-separated zoom spec
listed == mapNumber(split(zoom, ","))

occurrences(s, v) == Cardinality({i \in DOMAIN s : s[i] = v})

\* C19: for a comma-separated zoom spec, zooms holds the listed values in
\* ascending numeric order, whatever the order they were given in, also when
\* levels of one and of two digits are mixed.
C19_ListSortedNumerically ==
    (pc # "performAction" /\ indexOf(zoom, "-") = -1) =>
        /\ Len(zooms) = Len(listed)
        /\ \A v \in 0..MaxZoom : occurrences(zooms, v) = occurrences(listed, v)
        /\ \A i, j \in DOMAIN zooms : i < j => zooms[i] <= zooms[j]

\* C20: for a range spec a-b, zooms is a, a+1, ..., b when a < b and
\* a, a-1, ..., b when a > b (a alone when a = b), the tile list follows it,
\* and in a descending range no URL of a lower level is dispatched or printed
\* before a URL of a higher one.
C20_RangeFollowsDirection ==
    \A a, b \in 0..MaxZoom :
        (pc # "performAction" /\ zoom = String(a) \o <<"-">> \o String(b)) =>
            /\ zooms = [i \in 1..((IF a < b THEN b - a ELSE a - b) + 1) |->
                            IF a < b THEN a + i - 1 ELSE a - i + 1]
            /\ tilelist = zooms
            /\ \A u, v \in DOMAIN reqs :
                  (a > b /\ tilelist[tileOfURL(u)] > tilelist[tileOfURL(v)]) =>
                      /\ reqs[v].st # "queued" => reqs[u].st # "queued"
                      /\ argv.list => \E i, j \in DOMAIN printed :
                                         i < j /\ printed[i] = u /\ printed[j] = v

\* a descending range: the URL of the higher level is in flight while the
\* URL of the lower level waits
C20_Witness ==
    /\ indexOf(zoom, "-") > -1 /\ pc = "requesting" /\ Len(zooms) >= 2
    /\ zooms[1] > zooms[Len(zooms)]
    /\ \E u, v \in DOMAIN reqs :
          /\ tilelist[tileOfURL(u)] > tilelist[tileOfURL(v)]
          /\ reqs[u].st = "inflight" /\ reqs[v].st = "queued"

templateOfURL(u) == ((u - 1) % urltemplates) + 1

\* the template t with x, y, z written in place of {x}, {y}, {z}
RECURSIVE substituted(_, _, _, _)
substituted(t, x, y, z) ==
    IF t = <<>> THEN <<>>
    ELSE (CASE t[1] = "{x}" -> x
            [] t[1] = "{y}" -> y
            [] t[1] = "{z}" -> z
            [] OTHER -> <<t[1]>>) \o substituted(Tail(t), x, y, z)

NoStdinData == stdin.code = "EAGAIN" \/ (stdin.code = "" /\ isBlank(stdin.data))

\* C22: when standard input provides no data or only whitespace, readFromPipe
\* hands over to determineGeometry, which takes the geometry from --file,
\* --point or --extent, or goes on without geometry when only --expiredlist
\* is given; the geometry is taken from standard input only if it provided a
\* non-blank text.
C22_BlankStdinProceeds ==
    [][/\ (pc = "readFromPipe" /\ NoStdinData) => pc' = "determineGeometry"
       /\ (pc = "determineGeometry" /\ NoStdinData) =>
             /\ (argv.file \/ argv.point \/ argv.extent) =>
                   (pc' = "performAction" /\ geojson' \in {"file", "point", "extent"})
             /\ (~(argv.file \/ argv.point \/ argv.extent) /\ argv.expiredlist) =>
                   (pc' = "performAction" /\ geojson' = "undefined")
       /\ geojson' = "stdin" => ~NoStdinData]_vars

\* the URLs now in the buffer, and those of the batch being executed
Buffered == {urls[i] : i \in DOMAIN urls}

InBatch == {ex.coll[i] : i \in DOMAIN ex.coll}

\* C23: in expiredlist mode (without --list), whenever the stream may hand
\* over a further line, every URL built so far is still in the buffer or its
\* request has completed: the buffer was not cleared, and no line is
\* consumed, before every request of the batch completed, and no URL was
\* cleared undispatched; and while a batch is executed, every request under
\* way belongs to that batch. This for either value of allowfailures.
C23_BatchesNeverOverlap ==
    (argv.expiredlist /\ ~argv.list) =>
        /\ pc = "streaming" =>
              \A u \in DOMAIN reqs :
                  u \in Buffered \/ reqs[u].st \in {"succeeded", "exhausted"}
        /\ pc \in {"flushing", "finalflush"} =>
              \A u \in DOMAIN reqs : reqs[u].st = "inflight" => u \in InBatch

====
